---- MODULE Spec2Model ----
(***************************************************************************)
(* A model of satpy's SEVIRI native-format file handler                    *)
(* (satpy/readers/seviri_l1b_native.py, class NativeMSGFileHandler).       *)
(*                                                                         *)
(* A file on disk is a header record, a block of line records and a        *)
(* trailer record.  The handler is constructed from one file (__init__:    *)
(* _read_header, _get_memmap, _read_trailer) and then serves requests      *)
(* (get_area_extent, get_dataset with calibrate).                          *)
(*                                                                         *)
(* Numbers.  The code computes extents in floating point with offsets of   *)
(* 0.5 and 1.5 grid cells.  The model keeps every such quantity exactly,   *)
(* as an integer number of HALVES: an offset of -0.5 is the integer -1, an *)
(* extent coordinate v is the integer 2*v.  Names ending in 2 are in       *)
(* halves.  Grid steps and calibration coefficients are integers.          *)
(***************************************************************************)
EXTENDS Integers, Sequences, FiniteSets, TLC

VARIABLES
    file,        \* the content of the file on disk: [header, trailer, data]
    calib_mode,  \* the calib_mode argument of __init__, a sequence of characters
    hstate,      \* "none" before __init__, "ready" after it returned, "failed" if it raised
    header,      \* self.header: <<>> until _read_header has parsed it
    trailer,     \* self.trailer: <<>> until _read_trailer has parsed it
    mda,         \* self.mda
    dask_array,  \* the record layout of the raw view (self.dask_array)
    log,         \* what __init__ did, in order: steps, warnings and the error raised
    ret          \* the outcome of the last request served by the handler

vars == <<file, calib_mode, hstate, header, trailer, mda, dask_array, log, ret>>

(***************************************************************************)
(* Tables imported from satpy.readers.seviri_base                          *)
(***************************************************************************)

\* CHANNEL_NAMES: the 1-indexed table of the 12 channel names.
CHANNEL_NAMES ==
    <<"VIS006", "VIS008", "IR_016", "IR_039", "WV_062", "WV_073",
      "IR_087", "IR_097", "IR_108", "IR_120", "IR_134", "HRV">>

\* VIS_CHANNELS: the channels without GSICS coefficients.
VIS_CHANNELS == {"HRV", "VIS006", "VIS008", "IR_016"}

VISIR_NUM_COLUMNS == 3712

VISIR_NUM_LINES == 3712

HRV_NUM_COLUMNS == 11136

\* The names a caller may ask for: the table's names and one that is in no table.
NoSuchChannel == "IR_999"

RequestNames == {CHANNEL_NAMES[k] : k \in 1..Len(CHANNEL_NAMES)} \cup {NoSuchChannel}

(***************************************************************************)
(* Python helpers                                                          *)
(***************************************************************************)

Min(a, b) == IF a <= b THEN a ELSE b

\* x in s
InList(s, x) == \E k \in 1..Len(s) : s[k] = x

\* list.index(x): the 0-based position of the first x in the list s; -1 stands for
\* the ValueError it raises when x is not in s.
IndexOf(s, x) ==
    IF InList(s, x)
    THEN (CHOOSE k \in 1..Len(s) : s[k] = x /\ \A j \in 1..(k - 1) : s[j] # x) - 1
    ELSE -1

LowerLetters ==
    <<"a", "b", "c", "d", "e", "f", "g", "h", "i", "j", "k", "l", "m",
      "n", "o", "p", "q", "r", "s", "t", "u", "v", "w", "x", "y", "z">>

UpperLetters ==
    <<"A", "B", "C", "D", "E", "F", "G", "H", "I", "J", "K", "L", "M",
      "N", "O", "P", "Q", "R", "S", "T", "U", "V", "W", "X", "Y", "Z">>

\* str.upper() on one character: a lower-case letter becomes its capital, every other
\* character is kept.
UpperChar(c) ==
    IF InList(LowerLetters, c) THEN UpperLetters[IndexOf(LowerLetters, c) + 1] ELSE c

\* str.upper()
Upper(s) == [k \in 1..Len(s) |-> UpperChar(s[k])]

\* int(cols * 1.25) for cols >= 0
PackedBytes(cols) == (cols * 5) \div 4

(***************************************************************************)
(* Channel availability                                                    *)
(***************************************************************************)

\* A variant of get_available_channels that reads each channel's flag one character
\* further on.
get_available_channels_Shifted(chlist_str) ==
    [n \in {CHANNEL_NAMES[idx + 1] : idx \in 0..(Min(12, Len(chlist_str)) - 1)} |->
        chlist_str[((IndexOf(CHANNEL_NAMES, n) + 1) % Min(12, Len(chlist_str))) + 1] = "X"]

\* get_available_channels: zip(range(12), chlist_str) pairs table position idx + 1
\* with character idx and stops at the shorter of the two.
get_available_channels(chlist_str) ==
    [n \in {CHANNEL_NAMES[idx + 1] : idx \in 0..(Min(12, Len(chlist_str)) - 1)} |->
        chlist_str[IndexOf(CHANNEL_NAMES, n) + 1] = "X"]

\* The names CHANNEL_NAMES.values() holds that the mapping has no key for: the list
\* comprehension of _read_header raises KeyError on the first of them.
MissingKeys(available_channels) ==
    SelectSeq(CHANNEL_NAMES, LAMBDA n : n \notin DOMAIN available_channels)

\* [i for i in CHANNEL_NAMES.values() if self.mda['available_channels'][i]]
ChannelList(available_channels) ==
    SelectSeq(CHANNEL_NAMES, LAMBDA n : available_channels[n])

(***************************************************************************)
(* _read_header                                                            *)
(***************************************************************************)

\* A variant of the padding without the test for a remainder of 0.
Padding_Always(ncolumns) == 4 - (ncolumns % 4)

\* The padding of the standard-channel columns to a multiple of 4.
Padding(ncolumns) ==
    LET modulo == ncolumns % 4
    IN  IF modulo > 0 THEN 4 - modulo ELSE 0

\* cols_hrv: the header's value when the file is narrower than the full disk,
\* int(cols_hrv_hdr / 2) otherwise.
ColsHrv(ncolumns, cols_hrv_hdr) ==
    IF ncolumns < VISIR_NUM_COLUMNS THEN cols_hrv_hdr ELSE cols_hrv_hdr \div 2

\* A variant of the full-disk test that is content with one full dimension.
IsFullDisk_OneDimension(nrows, ncolumns) ==
    ~ ((nrows < VISIR_NUM_LINES) /\ (ncolumns < VISIR_NUM_COLUMNS))

\* is_full_disk: True from __init__, reset when the rectangle is smaller than the disk.
IsFullDisk(nrows, ncolumns) ==
    ~ ((nrows < VISIR_NUM_LINES) \/ (ncolumns < VISIR_NUM_COLUMNS))

\* self.mda as __init__ declares it.
InitialMda == [is_full_disk |-> TRUE]

\* _read_header on the header record hdr: the error it raises ("none" if it returns),
\* self.mda as it leaves it, and the warnings it logs.
ReadHeader(hdr) ==
    LET available_channels == get_available_channels(hdr.SelectedBandIDs)
        missing  == MissingKeys(available_channels)
        north    == hdr.NorthLineSelectedRectangle
        east     == hdr.EastColumnSelectedRectangle
        south    == hdr.SouthLineSelectedRectangle
        west     == hdr.WestColumnSelectedRectangle
        ncolumns == west - east + 1
        nrows    == north - south + 1
        cols_visir == ncolumns + Padding(ncolumns)
        cols_visir_hdr == hdr.NumberColumnsVISIR
    IN  IF Len(missing) > 0
        THEN [error    |-> <<"KeyError", missing[1]>>,
              mda      |-> [is_full_disk |-> TRUE,
                            available_channels |-> available_channels],
              warnings |-> <<>>]
        ELSE [error    |-> <<"none">>,
              mda      |-> [is_full_disk          |-> IsFullDisk(nrows, ncolumns),
                            available_channels    |-> available_channels,
                            channel_list          |-> ChannelList(available_channels),
                            number_of_lines       |-> hdr.NumberLinesVISIR,
                            number_of_columns     |-> cols_visir,
                            hrv_number_of_lines   |-> hdr.NumberLinesHRV,
                            hrv_number_of_columns |-> ColsHrv(ncolumns, hdr.NumberColumnsHRV)],
              warnings |-> IF cols_visir_hdr # cols_visir
                           THEN << <<"warning", "Number of VISIR columns from the header is incorrect!",
                                     cols_visir_hdr, cols_visir>> >>
                           ELSE <<>>]

(***************************************************************************)
(* _get_data_dtype: the layout of one line record                          *)
(***************************************************************************)

\* number_of_visir_channels
NumberOfVisirChannels(channel_list) ==
    Len(SelectSeq(channel_list, LAMBDA s : ~ (s = "HRV")))

\* drec: one 'visir' entry of number_of_visir_channels sub-records and, when HRV is
\* available, one 'hrv' entry of 3 sub-records; line_data is int(cols * 1.25) bytes.
GetDataDtype(m) ==
    LET visir == [name |-> "visir",
                  line_data |-> PackedBytes(m.number_of_columns),
                  count |-> NumberOfVisirChannels(m.channel_list)]
        hrv   == [name |-> "hrv",
                  line_data |-> PackedBytes(m.hrv_number_of_columns),
                  count |-> 3]
    IN  IF m.available_channels["HRV"] THEN <<visir, hrv>> ELSE <<visir>>

(***************************************************************************)
(* __init__                                                                *)
(***************************************************************************)

\* native_header.itemsize and native_trailer.itemsize (satpy.readers.seviri_l1b_native_hdr),
\* and the size of the packet header pk_head_dtype (GSDTRecords), in bytes.
HeaderSize == 450400

TrailerSize == 380325

PkHeadSize == 38

\* The bytes of lrec before line_data: gp_pk, version, satid, time, lineno, chan_id,
\* acq_time, line_validity, line_rquality, line_gquality.
LrecFixedSize == PkHeadSize + 1 + 2 + (2 * 5) + 4 + 1 + (2 * 3) + 1 + 1 + 1

\* numpy's itemsize of the sequence of entries e[k], k = 1..n.
RECURSIVE SumEntries(_, _)
SumEntries(e, n) ==
    IF n = 0 THEN 0
    ELSE SumEntries(e, n - 1) + e[n].count * (LrecFixedSize + e[n].line_data)

\* self._get_data_dtype().itemsize: the bytes of one line record.
ItemSize(dtype) == SumEntries(dtype, Len(dtype))

\* A variant of the trailer's offset that skips one line record only.
TrailerOffset_OneLine(m) == HeaderSize + ItemSize(GetDataDtype(m))

\* _read_trailer: hdr_size + data_size, the offset it seeks to.
TrailerOffset(m) == HeaderSize + (ItemSize(GetDataDtype(m)) * m.number_of_lines)

\* np.memmap raises ValueError when the file ends before the last line record.
MemmapFits(m, size) == HeaderSize + (ItemSize(GetDataDtype(m)) * m.number_of_lines) <= size

NoRequest == [op |-> "none"]

\* What __init__ does after _read_header when the file holds the data block: the raw
\* view (_get_memmap, which derives the layout and maps the file, and da.from_array)
\* and _read_trailer (which derives the layout again, seeks and reads).
StepsAfterHeader(m) ==
    << <<"step", "_get_data_dtype">>, <<"step", "np.memmap">>, <<"step", "da.from_array">>,
       <<"step", "_get_data_dtype">>, <<"step", "seek", TrailerOffset(m)>>,
       <<"step", "np.fromfile(native_trailer)">> >>

\* __init__: _read_header, the raw view over _get_memmap's layout, _read_trailer.
\* An exception in _read_header or in np.memmap leaves the constructor: no handler is
\* returned.  Files end after their trailer or within their data block; a file cut
\* within its trailer is not modelled.
Construct ==
    /\ hstate = "none"
    /\ LET h == ReadHeader(file.header)
       IN  /\ header' = file.header
           /\ mda' = h.mda
           /\ IF h.error[1] # "none"
              THEN /\ hstate' = "failed"
                   /\ log' = << <<"step", "_read_header">>, <<"raised">> \o h.error >>
                   /\ UNCHANGED <<dask_array, trailer>>
              ELSE IF ~ MemmapFits(h.mda, file.size)
              THEN /\ hstate' = "failed"
                   /\ log' = << <<"step", "_read_header">> >> \o h.warnings
                                 \o << <<"step", "_get_data_dtype">>, <<"step", "np.memmap">>,
                                       <<"raised", "ValueError",
                                         "mmap length is greater than file size">> >>
                   /\ UNCHANGED <<dask_array, trailer>>
              ELSE /\ hstate' = "ready"
                   /\ dask_array' = [dtype |-> GetDataDtype(h.mda),
                                     shape |-> h.mda.number_of_lines,
                                     offset |-> HeaderSize]
                   /\ trailer' = file.trailer
                   /\ log' = << <<"step", "_read_header">> >> \o h.warnings
                                 \o StepsAfterHeader(h.mda)
    /\ UNCHANGED <<file, calib_mode, ret>>

(***************************************************************************)
(* get_area_extent                                                         *)
(***************************************************************************)

\* A variant of _calculate_area_extent whose lower-left corner lacks the half-cell term.
CalculateAreaExtent2_NoHalfCell(center_point2, north, east, south, west, we_offset2, ns_offset2, column_step, line_step) ==
    << (center_point2 - 2 * east + we_offset2) * column_step,
       (2 * north - center_point2 + ns_offset2) * line_step,
       (center_point2 - 2 * west - 1 + we_offset2) * column_step,
       (2 * south - center_point2 - 1 + ns_offset2) * line_step >>

\* _calculate_area_extent, in halves: center_point2, we_offset2 and ns_offset2 are
\* twice the code's values, and so is each coordinate of the result.
\*   ll_c = (center_point - east + 0.5 + we_offset) * column_step
\*   ll_l = (north - center_point + 0.5 + ns_offset) * line_step
\*   ur_c = (center_point - west - 0.5 + we_offset) * column_step
\*   ur_l = (south - center_point - 0.5 + ns_offset) * line_step
CalculateAreaExtent2(center_point2, north, east, south, west, we_offset2, ns_offset2, column_step, line_step) ==
    << (center_point2 - 2 * east + 1 + we_offset2) * column_step,
       (2 * north - center_point2 + 1 + ns_offset2) * line_step,
       (center_point2 - 2 * west - 1 + we_offset2) * column_step,
       (2 * south - center_point2 - 1 + ns_offset2) * line_step >>

\* A variant of the offsets that forgets the HRV channel's larger correction.
EarthModelOffsets2_NoHrv(earth_model, name) ==
    IF earth_model = 2 THEN <<0, 0>>
    ELSE IF earth_model = 1 THEN <<-1, 1>>
         ELSE <<>>

\* The offsets (ns_offset, we_offset) of an earth model and a channel, in halves;
\* <<>> when the earth model is not recognised.
EarthModelOffsets2(earth_model, name) ==
    IF earth_model = 2 THEN <<0, 0>>
    ELSE IF earth_model = 1
         THEN (IF name = "HRV" THEN <<-3, 3>> ELSE <<-1, 1>>)
         ELSE <<>>

\* origins = {0: 'NW', 1: 'SW', 2: 'SE', 3: 'NE'}
origins == [g \in 0..3 |-> CASE g = 0 -> "NW" [] g = 1 -> "SW" [] g = 2 -> "SE" [] g = 3 -> "NE"]

\* What the grid-origin check raises: nothing for the south-east corner, else
\* NotImplementedError with a message built from origins[grid_origin], and the
\* KeyError of that lookup when the dictionary has no such key.
GridOriginCheck(grid_origin) ==
    IF grid_origin # 2
    THEN IF grid_origin \in DOMAIN origins
         THEN <<"NotImplementedError", "Grid origin not supported number", grid_origin,
                origins[grid_origin]>>
         ELSE <<"KeyError", grid_origin>>
    ELSE <<"none">>

\* if is_rapid_scan: the truth value of the trailer's ReducedScan
Truthy(v) == v # 0

\* A variant of the branch test that looks at the full-disk flag only.
UsesTrailerBounds_FullDiskOnly(name, is_full_disk, is_rapid_scan) ==
    (name = "HRV") /\ is_full_disk

\* The branch of get_area_extent that reads the trailer's actual HRV bounds.
UsesTrailerBounds(name, is_full_disk, is_rapid_scan) ==
    (name = "HRV") /\ (is_full_disk \/ Truthy(is_rapid_scan))

\* get_area_extent(dataset_id) with dataset_id['name'] = name: what it raises, what it
\* returns (a 4-tuple, or the list of two extents and four window sizes), and the
\* offsets and the branch it used.
AreaExtent(name) ==
    LET earth_model == header.TypeOfEarthModel
        offsets     == EarthModelOffsets2(earth_model, name)
        ns_offset2  == offsets[1]
        we_offset2  == offsets[2]
        hrv         == (name = "HRV")
        grid_origin == IF hrv THEN header.ReferenceGridHRV.GridOrigin
                       ELSE header.ReferenceGridVIS_IR.GridOrigin
        center_point2 == IF hrv THEN HRV_NUM_COLUMNS - 4 ELSE VISIR_NUM_COLUMNS
        coeff       == IF hrv THEN 3 ELSE 1
        column_step == (IF hrv THEN header.ReferenceGridHRV.ColumnDirGridStep
                        ELSE header.ReferenceGridVIS_IR.ColumnDirGridStep) * 1000
        line_step   == (IF hrv THEN header.ReferenceGridHRV.LineDirGridStep
                        ELSE header.ReferenceGridVIS_IR.LineDirGridStep) * 1000
        is_rapid_scan == trailer.ReducedScan
        b           == trailer.ActualL15CoverageHRV
        lower_area_extent ==
            CalculateAreaExtent2(center_point2, b.LowerNorthLineActual, b.LowerEastColumnActual,
                                 b.LowerSouthLineActual, b.LowerWestColumnActual,
                                 we_offset2, ns_offset2, column_step, line_step)
        upper_area_extent ==
            CalculateAreaExtent2(center_point2, b.UpperNorthLineActual, b.UpperEastColumnActual,
                                 b.UpperSouthLineActual, b.UpperWestColumnActual,
                                 we_offset2, ns_offset2, column_step, line_step)
        area_extent ==
            CalculateAreaExtent2(center_point2,
                                 coeff * header.NorthLineSelectedRectangle,
                                 coeff * header.EastColumnSelectedRectangle,
                                 coeff * header.SouthLineSelectedRectangle,
                                 coeff * header.WestColumnSelectedRectangle,
                                 we_offset2, ns_offset2, column_step, line_step)
        out(raised, value, offs, branch) ==
            [op |-> "get_area_extent", name |-> name, raised |-> raised,
             value |-> value, offsets |-> offs, branch |-> branch]
    IN  IF offsets = <<>>
        THEN out(<<"NotImplementedError", "Unrecognised Earth model", earth_model>>,
                 <<>>, <<>>, "none")
        ELSE IF GridOriginCheck(grid_origin)[1] # "none"
        THEN out(GridOriginCheck(grid_origin), <<>>, offsets, "none")
        ELSE IF UsesTrailerBounds(name, mda.is_full_disk, is_rapid_scan)
        THEN IF Truthy(is_rapid_scan)
             THEN out(<<"none">>, lower_area_extent, offsets, "trailer_lower")
             ELSE out(<<"none">>,
                      << upper_area_extent, lower_area_extent,
                         b.UpperNorthLineActual - b.UpperSouthLineActual + 1,
                         b.UpperWestColumnActual - b.UpperEastColumnActual + 1,
                         b.LowerNorthLineActual - b.LowerSouthLineActual + 1,
                         b.LowerWestColumnActual - b.LowerEastColumnActual + 1 >>,
                      offsets, "trailer_two_windows")
        ELSE out(<<"none">>, area_extent, offsets, "header_rectangle")

\* A caller asks a constructed handler for the area extent of a channel.
GetAreaExtent(name) ==
    /\ hstate = "ready"
    /\ ret = NoRequest
    /\ ret' = AreaExtent(name)
    /\ UNCHANGED <<file, calib_mode, hstate, header, trailer, mda, dask_array, log>>

(***************************************************************************)
(* get_dataset and calibrate                                               *)
(***************************************************************************)

\* dec10216 (satpy.readers.seviri_base): every 5 bytes hold 4 samples of 10 bits,
\* most significant bit first.
Dec10216Group(b) ==
    << b[1] * 4 + (b[2] \div 64),
       (b[2] % 64) * 16 + (b[3] \div 16),
       (b[3] % 16) * 64 + (b[4] \div 4),
       (b[4] % 4) * 256 + b[5] >>

\* A pixel of a float array is <<v>>; the missing value (NaN) is <<>>.
NaN == <<>>

\* A variant of the masking that keeps every count.
WhereNonZero_KeepZero(data) == [k \in 1..Len(data) |-> <<data[k]>>]

\* xr.DataArray(data).where(data != 0): a zero count becomes the missing value.
WhereNonZero(data) == [k \in 1..Len(data) |-> IF data[k] # 0 THEN <<data[k]>> ELSE NaN]

\* _convert_to_radiance (satpy.readers.seviri_base): data * gain + offset, NaN kept.
ConvertToRadiance(data, gain, offset) ==
    [k \in 1..Len(data) |-> IF data[k] = NaN THEN NaN ELSE <<data[k][1] * gain + offset>>]

\* A variant of the mode test that compares the mode as written, without upper().
UnknownCalibMode_CaseSensitive(mode) ==
    (mode # <<"G", "S", "I", "C", "S">>) /\ (mode # <<"N", "O", "M", "I", "N", "A", "L">>)

\* The test that sends calibrate to its NotImplementedError.
UnknownCalibMode(mode) == (Upper(mode) # <<"G", "S", "I", "C", "S">>)
                              /\ (Upper(mode) # <<"N", "O", "M", "I", "N", "A", "L">>)

\* The test that selects the header's nominal coefficients.
UsesNominalCoeffs(mode, channel) ==
    (Upper(mode) # <<"G", "S", "I", "C", "S">>) \/ (channel \in VIS_CHANNELS)

\* A variant of the index that counts the channels present in the file only.
CoeffIndex_InFile(channel) == IndexOf(mda.channel_list, channel)

\* The index calibrate reads the coefficient tables at.
CoeffIndex(channel) == IndexOf(CHANNEL_NAMES, channel)

\* The (gain, offset) pair calibrate selects for a channel.
Coefficients(mode, channel) ==
    LET i == CoeffIndex(channel)
    IN  IF UsesNominalCoeffs(mode, channel)
        THEN [source |-> "Level15ImageCalibration", i |-> i,
              gain   |-> header.CalSlope[i],
              offset |-> header.CalOffset[i]]
        ELSE [source |-> "MPEFCalFeedback", i |-> i,
              gain   |-> header.GSICSCalCoeff[i],
              offset |-> header.GSICSOffsetCount[i] * header.GSICSCalCoeff[i]]

Levels == {"radiance", "reflectance", "brightness_temperature"}

\* calibrate(data, dataset_id): what it raises, what it returns and the coefficients
\* it used (<<>> when it selected none).  _vis_calibrate and _ir_calibrate belong to
\* SEVIRICalibrationHandler; their results are kept as tagged terms, and what they or
\* the lookup of the solar irradiance in CALIB may raise is not modelled.
Calibrate(data, channel, calibration) ==
    LET c   == Coefficients(calib_mode, channel)
        res == ConvertToRadiance(data, c.gain, c.offset)
    IN  IF CoeffIndex(channel) = -1
        THEN [raised |-> <<"ValueError", channel>>, res |-> <<>>, coeffs |-> <<>>]
        ELSE IF calibration = "counts"
        THEN [raised |-> <<"none">>, res |-> data, coeffs |-> <<>>]
        ELSE IF calibration \in Levels /\ UnknownCalibMode(calib_mode)
        THEN [raised |-> <<"NotImplementedError", "Unknown Calibration mode : Please check">>,
              res |-> <<>>, coeffs |-> <<>>]
        ELSE IF calibration = "radiance"
        THEN [raised |-> <<"none">>, res |-> res, coeffs |-> <<c>>]
        ELSE IF calibration = "reflectance"
        THEN [raised |-> <<"none">>, res |-> <<"_vis_calibrate", res, channel>>, coeffs |-> <<c>>]
        ELSE IF calibration = "brightness_temperature"
        THEN [raised |-> <<"none">>,
              res |-> <<"_ir_calibrate", res, channel, header.PlannedChanProcessing[c.i]>>,
              coeffs |-> <<c>>]
        ELSE [raised |-> <<"UnboundLocalError", "res">>, res |-> <<>>, coeffs |-> <<>>]

\* The number of sub-records of the raw view's entry called name (0 when it has none).
SubRecords(name) ==
    LET e == SelectSeq(dask_array.dtype, LAMBDA d : d.name = name)
    IN  IF Len(e) = 0 THEN 0 ELSE e[1].count

\* A variant of the availability test that accepts every channel the header names.
ChannelAvailable_Known(name) == name \in DOMAIN mda.available_channels

\* dataset_id['name'] in self.mda['channel_list']
ChannelAvailable(name) == InList(mda.channel_list, name)

\* A variant of the sub-record index that is the channel's position in the table of 12.
SubRecordIndex_InTable(name) == IndexOf(CHANNEL_NAMES, name)

\* The sub-record of a line that get_dataset reads for a standard channel: the only
\* one when the channel list has one entry, else the channel's position in the
\* channel list.
SubRecordIndex(name) ==
    IF Len(mda.channel_list) = 1 THEN 0 ELSE IndexOf(mda.channel_list, name)

\* get_dataset(dataset_id, dataset_info) with dataset_id = (name, calibration).
Dataset(name, calibration) ==
    LET out(raised, steps, index, shape, counts, xarr, cal) ==
            [op |-> "get_dataset", name |-> name, calibration |-> calibration,
             raised |-> raised, steps |-> steps, index |-> index, shape |-> shape,
             data |-> counts, xarr |-> xarr, cal |-> cal]
        i    == SubRecordIndex(name)
        data == IF name = "HRV"
                THEN Dec10216Group(file.data.hrv[0]) \o Dec10216Group(file.data.hrv[1])
                         \o Dec10216Group(file.data.hrv[2])
                ELSE Dec10216Group(file.data.visir[i])
        shape == IF name = "HRV"
                 THEN <<mda.hrv_number_of_lines, mda.hrv_number_of_columns>>
                 ELSE <<mda.number_of_lines, mda.number_of_columns>>
        index == IF name = "HRV" THEN <<2, 1, 0>> ELSE <<i>>
        xarr == WhereNonZero(data)
        cal  == Calibrate(xarr, name, calibration)
    IN  IF ~ ChannelAvailable(name)
        THEN out(<<"KeyError", "Channel not available in the file", name>>,
                 <<>>, <<>>, <<>>, <<>>, <<>>, <<>>)
        ELSE IF name # "HRV" /\ i = -1
        THEN out(<<"ValueError", name>>, <<>>, <<>>, shape, <<>>, <<>>, <<>>)
        ELSE IF name = "HRV" /\ SubRecords("hrv") = 0
        THEN out(<<"ValueError", "no field of name hrv">>, <<>>, <<>>, shape, <<>>, <<>>, <<>>)
        ELSE IF name # "HRV" /\ i >= SubRecords("visir")
        THEN out(<<"IndexError", i>>, <<"read_raw">>, index, shape, <<>>, <<>>, <<>>)
        ELSE out(cal.raised, <<"read_raw", "dec10216", "where", "calibrate">>,
                 index, shape, data, xarr, <<cal>>)

Calibrations == {"counts", "radiance", "reflectance", "brightness_temperature", "albedo"}

\* A caller asks a constructed handler for a channel at a calibration level.
GetDataset(name, calibration) ==
    /\ hstate = "ready"
    /\ ret = NoRequest
    /\ ret' = Dataset(name, calibration)
    /\ UNCHANGED <<file, calib_mode, hstate, header, trailer, mda, dask_array, log>>

(***************************************************************************)
(* get_area_def                                                            *)
(***************************************************************************)

\* get_area_definition(pdict, area_extent) (satpy.readers._geos_area): the area of
\* pdict's description, size and the extent given.
AreaDefinition(a_desc, nlines, ncols, area_extent) ==
    [a_desc |-> a_desc, nlines |-> nlines, ncols |-> ncols, area_extent |-> area_extent]

\* geometry.StackedAreaDefinition(lower_area, upper_area).squeeze() (pyresample).
StackedAreaDefinition(lower_area, upper_area) == [stacked |-> <<lower_area, upper_area>>]

\* get_area_def(dataset_id) with dataset_id['name'] = name: what it raises, the area it
\* returns, the result of its call of get_area_extent and the number of values it
\* takes that result to have (6 where it unpacks two extents and four sizes, 4 where
\* it passes it on as one extent).
AreaDef(name) ==
    LET e       == AreaExtent(name)
        hrv     == (name = "HRV")
        expects == IF hrv /\ mda.is_full_disk THEN 6 ELSE 4
        out(raised, area) ==
            [op |-> "get_area_def", name |-> name, raised |-> raised, area |-> area,
             extent |-> e, expects |-> expects]
    IN  IF e.raised[1] # "none"
        THEN out(e.raised, <<>>)
        ELSE IF hrv
        THEN IF mda.is_full_disk
             THEN IF Len(e.value) # 6
                  THEN out(<<"ValueError", "not enough values to unpack", 6, Len(e.value)>>,
                           <<>>)
                  ELSE out(<<"none">>,
                           StackedAreaDefinition(
                               AreaDefinition("SEVIRI high resolution channel, lower window",
                                              e.value[5], e.value[6], e.value[2]),
                               AreaDefinition("SEVIRI high resolution channel, upper window",
                                              e.value[3], e.value[4], e.value[1])))
             ELSE out(<<"none">>,
                      AreaDefinition("SEVIRI high resolution channel area",
                                     mda.hrv_number_of_lines, mda.hrv_number_of_columns,
                                     e.value))
        ELSE out(<<"none">>,
                 AreaDefinition("SEVIRI low resolution channel area",
                                mda.number_of_lines, mda.number_of_columns, e.value))

\* A caller asks a constructed handler for the area definition of a channel.
GetAreaDef(name) ==
    /\ hstate = "ready"
    /\ ret = NoRequest
    /\ ret' = AreaDef(name)
    /\ UNCHANGED <<file, calib_mode, hstate, header, trailer, mda, dask_array, log>>

(***************************************************************************)
(* Files                                                                   *)
(***************************************************************************)

\* Bounds of the model.
MaxEarthModel == 3

MaxGridOrigin == 4

BandSlack == 1

MaxMargin == 3

\* The selection string of a file with all 12 channels.
AllSelected == [k \in 1..12 |-> "X"]

\* Selected rectangles [north, east, south, west]: the full disk, regions of interest
\* centred on the grid and not, with and without a column count divisible by 4, and a
\* full-width strip.
FullDiskRectangle == [north |-> 3712, east |-> 1, south |-> 1, west |-> 3712]

Rectangles ==
    { FullDiskRectangle,
      [north |-> 2856, east |-> 857, south |-> 857, west |-> 2856],
      [north |-> 3000, east |-> 856, south |-> 713, west |-> 2857],
      [north |-> 3000, east |-> 101, south |-> 501, west |-> 1703],
      [north |-> 3000, east |-> 1, south |-> 500, west |-> 3712],
      [north |-> 3712, east |-> 857, south |-> 1, west |-> 2856] }

\* Grid steps [VIS_IR column, VIS_IR line, HRV column, HRV line].
GridSteps == { <<3, 3, 1, 1>>, <<3, 4, 1, 2>> }

\* The calibration tables of the header, one entry per table position 0..11.
CoeffTables(v) ==
    [CalSlope              |-> [i \in 0..11 |-> 2 + i + 100 * v],
     CalOffset             |-> [i \in 0..11 |-> -(10 + i + v)],
     GSICSCalCoeff         |-> [i \in 0..11 |-> 30 + i + 100 * v],
     GSICSOffsetCount      |-> [i \in 0..11 |-> -(51 + i)],
     PlannedChanProcessing |-> [i \in 0..11 |-> 1 + (i % 2)]]

\* A header record.
Header(band, earth_model, origin_visir, origin_hrv, steps, r, cols_visir_hdr, cols_hrv_hdr, v) ==
    [SelectedBandIDs |-> band,
     TypeOfEarthModel |-> earth_model,
     ReferenceGridVIS_IR |-> [GridOrigin |-> origin_visir,
                              ColumnDirGridStep |-> steps[1], LineDirGridStep |-> steps[2]],
     ReferenceGridHRV    |-> [GridOrigin |-> origin_hrv,
                              ColumnDirGridStep |-> steps[3], LineDirGridStep |-> steps[4]],
     NorthLineSelectedRectangle  |-> r.north,
     EastColumnSelectedRectangle |-> r.east,
     SouthLineSelectedRectangle  |-> r.south,
     WestColumnSelectedRectangle |-> r.west,
     NumberColumnsVISIR |-> cols_visir_hdr,
     NumberColumnsHRV   |-> cols_hrv_hdr,
     NumberLinesVISIR   |-> r.north - r.south + 1,
     NumberLinesHRV     |-> 3 * (r.north - r.south + 1),
     CalSlope              |-> CoeffTables(v).CalSlope,
     CalOffset             |-> CoeffTables(v).CalOffset,
     GSICSCalCoeff         |-> CoeffTables(v).GSICSCalCoeff,
     GSICSOffsetCount      |-> CoeffTables(v).GSICSOffsetCount,
     PlannedChanProcessing |-> CoeffTables(v).PlannedChanProcessing]

\* The column counts a well-formed file reports for a rectangle.
ColsVisirOf(r) == (r.west - r.east + 1) + Padding(r.west - r.east + 1)

ColsHrvOf(r) == 3 * ColsVisirOf(r)

\* A trailer record: the rapid-scan flag and the actual bounds of the two HRV windows.
Trailer(reduced_scan, shift) ==
    [ReducedScan |-> reduced_scan,
     ActualL15CoverageHRV |->
        [LowerSouthLineActual  |-> 1,
         LowerNorthLineActual  |-> 8064,
         LowerEastColumnActual |-> 1944 + shift,
         LowerWestColumnActual |-> 7511 + shift,
         UpperSouthLineActual  |-> 8065,
         UpperNorthLineActual  |-> 11136,
         UpperEastColumnActual |-> 2805 - shift,
         UpperWestColumnActual |-> 8372 - shift]]

\* The data block: the packed bytes of each sub-record of a line, 5 bytes (4 pixels)
\* of each.  Sub-record k of the standard channels decodes to <<4k + 4, 0, 0, p>>.
Data(p) ==
    [visir |-> [k \in 0..11 |-> <<k + 1, 0, 0, 0, p>>],
     hrv   |-> [k \in 0..2  |-> <<0, 16 * (k + 1), 0, p, 0>>]]

\* The size of a complete file with the header hdr: header, data block (as the
\* header's rectangle, channels and line count lay it out) and trailer.
CompleteSize(hdr) ==
    LET h == ReadHeader(hdr)
    IN  IF h.error[1] # "none" THEN HeaderSize + TrailerSize
        ELSE HeaderSize + (ItemSize(GetDataDtype(h.mda)) * h.mda.number_of_lines) + TrailerSize

\* The file of the records f, complete.
Complete(f) ==
    [header |-> f.header, trailer |-> f.trailer, data |-> f.data,
     size |-> CompleteSize(f.header)]

\* The file of the records f, cut one byte before the end of its data block.
CutInData(f) ==
    [header |-> f.header, trailer |-> f.trailer, data |-> f.data,
     size |-> CompleteSize(f.header) - TrailerSize - 1]

Nominal == <<"n", "o", "m", "i", "n", "a", "l">>

\* The handler before __init__ has run.
NoHandler ==
    /\ hstate = "none"
    /\ header = <<>>
    /\ trailer = <<>>
    /\ mda = InitialMda
    /\ dask_array = <<>>
    /\ log = <<>>
    /\ ret = NoRequest

\* Files that differ in their geometry: earth model, grid origins, grid steps, selected
\* rectangle, rapid-scan flag and window bounds.
Init ==
    /\ \E earth_model \in 0..MaxEarthModel, origin_visir \in 0..MaxGridOrigin,
          origin_hrv \in 0..MaxGridOrigin, steps \in GridSteps, r \in Rectangles,
          reduced_scan \in 0..1 :
          file = Complete([header  |-> Header(AllSelected, earth_model, origin_visir,
                                              origin_hrv, steps, r, ColsVisirOf(r),
                                              ColsHrvOf(r), 0),
                           trailer |-> Trailer(reduced_scan, 0),
                           data    |-> Data(7)])
    /\ calib_mode = Nominal
    /\ NoHandler

\* The handler is synchronous: the caller has the outcome of one request (a value or
\* an exception) before it makes the next one.
Return ==
    /\ ret # NoRequest
    /\ ret' = NoRequest
    /\ UNCHANGED <<file, calib_mode, hstate, header, trailer, mda, dask_array, log>>

Next ==
    \/ Construct
    \/ Return
    \/ \E name \in RequestNames : GetAreaExtent(name)
    \/ \E name \in RequestNames : GetAreaDef(name)
    \/ \E name \in RequestNames, calibration \in Calibrations : GetDataset(name, calibration)

Spec == Init /\ [][Next]_vars

\* A full-disk file of earth model 2 with the channels of band.
PlainFile(band, v, p) ==
    Complete([header  |-> Header(band, 2, 2, 2, <<3, 3, 1, 1>>, FullDiskRectangle,
                                 ColsVisirOf(FullDiskRectangle), ColsHrvOf(FullDiskRectangle), v),
              trailer |-> Trailer(0, 0),
              data    |-> Data(p)])

\* Selections of channels: all of them, some of them, one standard channel, HRV alone.
Bands ==
    { AllSelected,
      [k \in 1..12 |-> IF k \in {2, 4, 9, 12} THEN "X" ELSE "-"],
      [k \in 1..12 |-> IF k \in {3, 9, 11} THEN "X" ELSE "-"],
      [k \in 1..12 |-> IF k = 9 THEN "X" ELSE "-"],
      [k \in 1..12 |-> IF k = 12 THEN "X" ELSE "-"] }

\* Selection strings: every string of 12 characters over 'X' and '-', and the strings
\* of Bands cut short or extended by up to BandSlack characters.
SelectionStrings ==
    [1..12 -> {"X", "-"}]
        \cup { SubSeq(b, 1, 12 - k) : b \in Bands, k \in 1..BandSlack }
        \cup { b \o t : b \in Bands, t \in UNION { [1..k -> {"X", "-"}] : k \in 1..BandSlack } }

\* Files that differ in their selection string.
InitChan ==
    /\ \E band \in SelectionStrings : file = PlainFile(band, 0, 7)
    /\ calib_mode = Nominal
    /\ NoHandler

SpecChan == InitChan /\ [][Next]_vars

\* Calibration modes a caller may pass: the two the code knows, in several letter
\* cases, and others.
CalibModes ==
    { Nominal,
      <<"N", "O", "M", "I", "N", "A", "L">>,
      <<"N", "o", "m", "i", "n", "a", "l">>,
      <<"g", "s", "i", "c", "s">>,
      <<"G", "S", "I", "C", "S">>,
      <<"g", "S", "i", "C", "s">>,
      <<"n", "o", "m", "i", "n", "a">>,
      <<"g", "s", "i", "c", "s", "2">>,
      <<"m", "e", "i", "r", "i", "n", "k">>,
      <<>> }

\* Files and handlers that differ in calibration mode, channels, coefficient tables
\* and pixel data.
InitCal ==
    /\ \E band \in Bands, v \in 0..1, p \in {0, 7} : file = PlainFile(band, v, p)
    /\ calib_mode \in CalibModes
    /\ NoHandler

SpecCal == InitCal /\ [][Next]_vars

\* Rectangles whose east and west columns leave margins of 0..MaxMargin columns to the
\* full disk or to a region of interest, so that every remainder of the column count
\* modulo 4 occurs.
ColumnRectangles ==
    { [north |-> 3712, east |-> e0 + me, south |-> 1, west |-> w0 - mw] :
        e0 \in {1, 857}, w0 \in {3712, 2856}, me \in 0..MaxMargin, mw \in 0..MaxMargin }

\* Files that differ in their column counts: the rectangle's, and the ones the header
\* reports for the standard channels (right, unpadded, or wrong) and for HRV.
InitCols ==
    /\ \E r \in ColumnRectangles :
       \E cols_visir_hdr \in {ColsVisirOf(r), r.west - r.east + 1, ColsVisirOf(r) + 4},
          cols_hrv_hdr \in {ColsHrvOf(r), ColsHrvOf(r) + 1} :
          file = Complete([header  |-> Header(AllSelected, 2, 2, 2, <<3, 3, 1, 1>>, r,
                                              cols_visir_hdr, cols_hrv_hdr, 0),
                           trailer |-> Trailer(0, 0),
                           data    |-> Data(7)])
    /\ calib_mode = Nominal
    /\ NoHandler

SpecCols == InitCols /\ [][Next]_vars

\* Files that open and files that do not: complete or cut within the data block, with
\* a selection string of 12 characters or one too short, over several rectangles and
\* header-reported column counts.
InitOpen ==
    /\ \E band \in Bands \cup { SubSeq(AllSelected, 1, 11) }, r \in Rectangles :
       \E cols_visir_hdr \in {ColsVisirOf(r), r.west - r.east + 1} :
          LET f == [header  |-> Header(band, 2, 2, 2, <<3, 3, 1, 1>>, r,
                                       cols_visir_hdr, ColsHrvOf(r), 0),
                    trailer |-> Trailer(0, 0),
                    data    |-> Data(7)]
          IN  file \in {Complete(f), CutInData(f)}
    /\ calib_mode = Nominal
    /\ NoHandler

SpecOpen == InitOpen /\ [][Next]_vars

(***************************************************************************)
(* Properties of get_area_extent (specification Spec)                      *)
(***************************************************************************)

\* The last request was get_area_extent.
AreaRequest == ret.op = "get_area_extent"

\* The grid origin get_area_extent looks at for the channel of the last request.
RequestGridOrigin ==
    IF ret.name = "HRV" THEN header.ReferenceGridHRV.GridOrigin
    ELSE header.ReferenceGridVIS_IR.GridOrigin

SupportedEarthModel == header.TypeOfEarthModel \in {1, 2}

\* C2: get_area_extent uses the offsets (ns, we) = (0, 0) for earth model 2,
\* (-0.5, +0.5) for earth model 1 and a standard channel, (-1.5, +1.5) for earth model 1
\* and HRV (in halves: <<0, 0>>, <<-1, 1>>, <<-3, 3>>), and raises NotImplementedError,
\* returning nothing, for every other earth model.  The extent it returns from the
\* header's rectangle carries these offsets.
C2_EarthModelOffsets ==
    AreaRequest =>
        LET em   == header.TypeOfEarthModel
            hrv  == ret.name = "HRV"
            want == IF em = 2 THEN <<0, 0>>
                    ELSE IF hrv THEN <<-3, 3>> ELSE <<-1, 1>>
            c2   == IF hrv THEN 11132 ELSE 3712
            k    == IF hrv THEN 3 ELSE 1
            cs   == 1000 * (IF hrv THEN header.ReferenceGridHRV.ColumnDirGridStep
                            ELSE header.ReferenceGridVIS_IR.ColumnDirGridStep)
            ls   == 1000 * (IF hrv THEN header.ReferenceGridHRV.LineDirGridStep
                            ELSE header.ReferenceGridVIS_IR.LineDirGridStep)
        IN  IF em \in {1, 2}
            THEN /\ ret.offsets = want
                 /\ ret.raised[1] = "NotImplementedError" => ret.raised[2] # "Unrecognised Earth model"
                 /\ ret.branch = "header_rectangle" =>
                       /\ ret.value[1] = (c2 - 2 * k * header.EastColumnSelectedRectangle + 1 + want[2]) * cs
                       /\ ret.value[2] = (2 * k * header.NorthLineSelectedRectangle - c2 + 1 + want[1]) * ls
                       /\ ret.value[3] = (c2 - 2 * k * header.WestColumnSelectedRectangle - 1 + want[2]) * cs
                       /\ ret.value[4] = (2 * k * header.SouthLineSelectedRectangle - c2 - 1 + want[1]) * ls
            ELSE /\ ret.raised = <<"NotImplementedError", "Unrecognised Earth model", em>>
                 /\ ret.value = <<>>

\* An HRV extent was returned for earth model 1 from the header's rectangle.
C2_Witness ==
    /\ AreaRequest
    /\ header.TypeOfEarthModel = 1
    /\ ret.name = "HRV"
    /\ ret.branch = "header_rectangle"
    /\ ret.offsets = <<-3, 3>>

\* C3 (as claimed): with a supported earth model, every grid origin other than 2 makes
\* get_area_extent raise NotImplementedError and return no extent, for every channel.
C3_GridOriginNotImplemented ==
    (AreaRequest /\ SupportedEarthModel /\ RequestGridOrigin # 2) =>
        (ret.raised[1] = "NotImplementedError" /\ ret.value = <<>>)

\* C3, for the grid origins the message table knows (0, 1 and 3).
C3_KnownGridOrigins ==
    (AreaRequest /\ SupportedEarthModel /\ RequestGridOrigin \in {0, 1, 3}) =>
        (ret.raised[1] = "NotImplementedError" /\ ret.value = <<>>)

\* The extent computed by the shared formula from the trailer's lower window, for HRV.
LowerWindowExtent2 ==
    LET b  == trailer.ActualL15CoverageHRV
        o  == ret.offsets
        cs == 1000 * header.ReferenceGridHRV.ColumnDirGridStep
        ls == 1000 * header.ReferenceGridHRV.LineDirGridStep
    IN  << (11132 - 2 * b.LowerEastColumnActual + 1 + o[2]) * cs,
           (2 * b.LowerNorthLineActual - 11132 + 1 + o[1]) * ls,
           (11132 - 2 * b.LowerWestColumnActual - 1 + o[2]) * cs,
           (2 * b.LowerSouthLineActual - 11132 - 1 + o[1]) * ls >>

\* C6: for HRV in a file whose trailer has ReducedScan set, get_area_extent never
\* returns the two-window form, and (for an earth model and a grid origin it supports)
\* it returns one extent, computed from the trailer's lower-window bounds, whether or
\* not the file is full disk.
C6_RapidScanSingleExtent ==
    (AreaRequest /\ ret.name = "HRV" /\ trailer.ReducedScan # 0) =>
        /\ Len(ret.value) # 6
        /\ (SupportedEarthModel /\ RequestGridOrigin = 2) =>
              /\ ret.raised = <<"none">>
              /\ Len(ret.value) = 4
              /\ ret.value = LowerWindowExtent2

\* A rapid-scan extent was returned for a file that is not full disk.
C6_Witness ==
    /\ AreaRequest
    /\ ret.name = "HRV"
    /\ trailer.ReducedScan # 0
    /\ ~ mda.is_full_disk
    /\ ret.raised = <<"none">>
    /\ Len(ret.value) = 4

\* The selected rectangle is centred on the standard grid.
SymmetricRectangle ==
    /\ header.EastColumnSelectedRectangle + header.WestColumnSelectedRectangle = 3712 + 1
    /\ header.NorthLineSelectedRectangle + header.SouthLineSelectedRectangle = 3712 + 1

\* The case of C7: an extent computed by the shared formula from the header's
\* rectangle, earth model 2.
C7_Case ==
    /\ AreaRequest
    /\ ret.raised = <<"none">>
    /\ ret.branch = "header_rectangle"
    /\ header.TypeOfEarthModel = 2
    /\ SymmetricRectangle

\* The bounds the formula is given in the case of C7 (the header's, times 3 for HRV)
\* and the steps of the channel's grid, in metres.
C7_Inputs ==
    LET hrv == ret.name = "HRV"
        k   == IF hrv THEN 3 ELSE 1
        g   == IF hrv THEN header.ReferenceGridHRV ELSE header.ReferenceGridVIS_IR
    IN  [columns |-> k * header.WestColumnSelectedRectangle
                        - k * header.EastColumnSelectedRectangle + 1,
         rows    |-> k * header.NorthLineSelectedRectangle
                        - k * header.SouthLineSelectedRectangle + 1,
         cs      |-> 1000 * g.ColumnDirGridStep,
         ls      |-> 1000 * g.LineDirGridStep]

\* C7 (as claimed): for earth model 2 and a symmetric selected rectangle, with columns
\* = west - east + 1 and rows = north - south + 1 of the bounds given to the formula,
\* ur_col - ll_col and ur_row - ll_row are positive and equal to columns * col_step and
\* rows * row_step (coordinates in halves, hence the factor 2).
C7_ExtentSpanPositive ==
    C7_Case =>
        LET columns == C7_Inputs.columns
            rows    == C7_Inputs.rows
            cs      == C7_Inputs.cs
            ls      == C7_Inputs.ls
        IN  /\ ret.value[3] - ret.value[1] > 0
            /\ ret.value[4] - ret.value[2] > 0
            /\ ret.value[3] - ret.value[1] = 2 * columns * cs
            /\ ret.value[4] - ret.value[2] = 2 * rows * ls

\* C7 (amended): in that case it is ll_col - ur_col and ll_row - ur_row that are
\* positive and equal to columns * col_step and rows * row_step, the grid steps being
\* positive.
C7_ExtentSpanReversed ==
    C7_Case =>
        LET columns == C7_Inputs.columns
            rows    == C7_Inputs.rows
            cs      == C7_Inputs.cs
            ls      == C7_Inputs.ls
        IN  /\ ret.value[1] - ret.value[3] > 0
            /\ ret.value[2] - ret.value[4] > 0
            /\ ret.value[1] - ret.value[3] = 2 * columns * cs
            /\ ret.value[2] - ret.value[4] = 2 * rows * ls

\* A standard channel's extent was returned for a centred region of interest whose
\* column count is not the full disk's.
C7_Witness ==
    /\ C7_Case
    /\ ret.name = "IR_108"
    /\ header.WestColumnSelectedRectangle - header.EastColumnSelectedRectangle + 1 = 2002

(***************************************************************************)
(* Properties of the channel list (specification SpecChan)                 *)
(***************************************************************************)

\* The selection string of the file.
Band == file.header.SelectedBandIDs

\* The position of a channel name in the table of 12, from 1.
TablePosition(n) == CHOOSE i \in 1..12 : CHANNEL_NAMES[i] = n

\* C1: for every selection string of 12 characters, _read_header builds a channel list,
\* and the list holds exactly the channels whose position holds 'X' (position i,
\* counted from 0, is table entry i + 1), as many as there are 'X', in the order of
\* the table.
C1_ChannelListMatchesBitstring ==
    (Len(Band) = 12 /\ hstate # "none") =>
        /\ "channel_list" \in DOMAIN mda
        /\ Len(mda.channel_list) = Cardinality({i \in 0..11 : Band[i + 1] = "X"})
        /\ \A i \in 0..11 :
              (Band[i + 1] = "X") <=>
                  (\E k \in 1..Len(mda.channel_list) : mda.channel_list[k] = CHANNEL_NAMES[i + 1])
        /\ \A a \in 1..(Len(mda.channel_list) - 1) :
              TablePosition(mda.channel_list[a]) < TablePosition(mda.channel_list[a + 1])

\* The file selects the second and the last two channels only.
C1_Witness ==
    /\ hstate = "ready"
    /\ Band = [k \in 1..12 |-> IF k \in {2, 11, 12} THEN "X" ELSE "-"]
    /\ mda.channel_list = <<"VIS008", "IR_134", "HRV">>

\* The last request was get_dataset.
DatasetRequest == ret.op = "get_dataset"

\* The channel of the last request is in the file's channel list.
RequestedChannelListed ==
    \E k \in 1..Len(mda.channel_list) : mda.channel_list[k] = ret.name

\* C9: get_dataset for a channel that is not in the channel list raises a KeyError that
\* names the channel, having read, unpacked and calibrated nothing; for a channel that
\* is in the channel list it never raises that error.
C9_MissingChannelKeyError ==
    DatasetRequest =>
        IF RequestedChannelListed
        THEN ret.raised[1] # "KeyError"
        ELSE /\ ret.raised = <<"KeyError", "Channel not available in the file", ret.name>>
             /\ ret.steps = <<>>
             /\ ret.xarr = <<>>
             /\ ret.cal = <<>>

\* A channel of the table that the file does not hold was asked for.
C9_Witness ==
    /\ DatasetRequest
    /\ ret.name = "IR_108"
    /\ Len(mda.channel_list) > 0
    /\ ~ RequestedChannelListed
    /\ ret.raised[1] = "KeyError"

\* C10 (as claimed): a selection string whose length is not 12 makes construction fail:
\* no handler, and so no channel list, comes of it.
C10_WrongLengthRejected ==
    (Len(Band) # 12 /\ hstate # "none") =>
        (hstate = "failed" /\ "channel_list" \notin DOMAIN mda)

\* A selection string shorter than 12 makes _read_header raise the KeyError of its list
\* comprehension.
C10_ShortStringKeyError ==
    (Len(Band) < 12 /\ hstate # "none") =>
        (hstate = "failed" /\ log[Len(log)][2] = "KeyError")

(***************************************************************************)
(* Properties of calibrate (specification SpecCal)                         *)
(***************************************************************************)

\* The mode spells word, whatever the case of its letters: lower and upper are the
\* word in lower and in upper case.
SpellsIgnoringCase(mode, lower, upper) ==
    /\ Len(mode) = Len(lower)
    /\ \A k \in 1..Len(lower) : mode[k] = lower[k] \/ mode[k] = upper[k]

IsNominalMode ==
    SpellsIgnoringCase(calib_mode, <<"n", "o", "m", "i", "n", "a", "l">>,
                       <<"N", "O", "M", "I", "N", "A", "L">>)

IsGsicsMode ==
    SpellsIgnoringCase(calib_mode, <<"g", "s", "i", "c", "s">>, <<"G", "S", "I", "C", "S">>)

\* The last request reached calibrate.
CalibrateCalled == DatasetRequest /\ Len(ret.cal) = 1

ModeError == <<"NotImplementedError", "Unknown Calibration mode : Please check">>

\* C4 (as claimed): at every calibration level, counts included, calibrate fails with
\* the unknown-mode error exactly when the mode is neither 'nominal' nor 'gsics' in any
\* letter case.
C4_UnknownModeFailsAtEveryLevel ==
    (CalibrateCalled
        /\ ret.calibration \in {"counts", "radiance", "reflectance", "brightness_temperature"}) =>
        ((ret.raised = ModeError) <=> ~ (IsNominalMode \/ IsGsicsMode))

\* C4 (amended): at the levels radiance, reflectance and brightness_temperature,
\* calibrate fails with the unknown-mode error exactly when the mode is neither
\* 'nominal' nor 'gsics' in any letter case; at the level counts it never fails and
\* returns its input, whatever the mode.
C4_UnknownModeFailsAboveCounts ==
    CalibrateCalled =>
        /\ ret.calibration \in {"radiance", "reflectance", "brightness_temperature"} =>
              ((ret.raised = ModeError) <=> ~ (IsNominalMode \/ IsGsicsMode))
        /\ ret.calibration = "counts" =>
              (ret.raised = <<"none">> /\ ret.cal[1].res = ret.xarr)

\* A handler built with a mode that is a letter short of 'nominal' was asked for a
\* brightness temperature, and calibrate raised the unknown-mode error.
C4_Witness ==
    /\ CalibrateCalled
    /\ calib_mode = <<"n", "o", "m", "i", "n", "a">>
    /\ ret.calibration = "brightness_temperature"
    /\ ret.raised = ModeError

\* The position of the last request's channel in the full table of 12, from 0.
FullTableIndex == CHOOSE i \in 0..11 : CHANNEL_NAMES[i + 1] = ret.name

\* C5: the coefficients calibrate uses for a channel are read at the channel's position
\* in the full table of 12, whatever channels the file holds.  Under gsics a visible
\* channel uses the nominal pair (CalSlope, CalOffset) unchanged and every other
\* channel uses gain = GSICSCalCoeff and offset = GSICSOffsetCount * gain; under
\* nominal every channel uses the nominal pair.  The radiance is computed with them.
C5_CoefficientSelection ==
    (CalibrateCalled /\ ret.raised = <<"none">>
        /\ ret.calibration \in {"radiance", "reflectance", "brightness_temperature"}) =>
        LET c == ret.cal[1].coeffs[1]
            i == FullTableIndex
            nominal == /\ c.gain = header.CalSlope[i]
                       /\ c.offset = header.CalOffset[i]
            gsics   == /\ c.gain = header.GSICSCalCoeff[i]
                       /\ c.offset = header.GSICSOffsetCount[i] * header.GSICSCalCoeff[i]
        IN  /\ c.i = i
            /\ IsNominalMode => nominal
            /\ (IsGsicsMode /\ ret.name \in VIS_CHANNELS) => nominal
            /\ (IsGsicsMode /\ ret.name \notin VIS_CHANNELS) => gsics
            /\ ret.calibration = "radiance" =>
                  \A k \in 1..Len(ret.xarr) :
                      ret.xarr[k] # <<>> =>
                          ret.cal[1].res[k] = <<ret.xarr[k][1] * c.gain + c.offset>>

\* Under gsics, a channel without GSICS exemption was calibrated in a file where it is
\* the first channel present, though the ninth of the table.
C5_Witness ==
    /\ CalibrateCalled
    /\ IsGsicsMode
    /\ ret.name = "IR_108"
    /\ ret.calibration = "radiance"
    /\ mda.channel_list[1] = "IR_108"
    /\ ret.raised = <<"none">>
    /\ ret.cal[1].coeffs[1].i = 8

(***************************************************************************)
(* Properties of the column counts (specification SpecCols)                *)
(***************************************************************************)

\* The column count of the selected rectangle.
SelectedColumns ==
    file.header.WestColumnSelectedRectangle - file.header.EastColumnSelectedRectangle + 1

\* C8: the standard-channel column count _read_header records is
\* c + ((4 - c mod 4) mod 4) for the rectangle's column count c: divisible by 4, and c
\* itself when c is.  A header-reported NumberColumnsVISIR that differs is logged as a
\* warning and nothing more: construction returns a handler, and the record layout and
\* the dataset shape use the computed value.
C8_PaddedColumns ==
    hstate # "none" =>
        LET c      == SelectedColumns
            padded == c + ((4 - (c % 4)) % 4)
            warned == \E k \in 1..Len(log) : log[k][1] = "warning"
        IN  /\ hstate = "ready"
            /\ mda.number_of_columns = padded
            /\ mda.number_of_columns % 4 = 0
            /\ (c % 4 = 0) => mda.number_of_columns = c
            /\ warned <=> (file.header.NumberColumnsVISIR # padded)
            /\ dask_array.dtype[1].name = "visir"
            /\ 4 * dask_array.dtype[1].line_data = 5 * padded
            /\ (DatasetRequest /\ ret.name # "HRV" /\ ret.raised = <<"none">>) =>
                  ret.shape = <<mda.number_of_lines, padded>>

\* A file whose header reports the unpadded column count of a rectangle that needs
\* padding was opened and a standard channel read from it.
C8_Witness ==
    /\ hstate = "ready"
    /\ SelectedColumns % 4 = 3
    /\ file.header.NumberColumnsVISIR = SelectedColumns
    /\ DatasetRequest
    /\ ret.name = "VIS006"
    /\ ret.raised = <<"none">>
    /\ ret.shape[2] = SelectedColumns + 1


\* ---------------------------------------------------------------------------------
\* Construction (__init__, _get_memmap, _read_trailer)

\* The names of the steps taken so far, in order.
IsStep(e) == e[1] = "step"

StepNames == [k \in 1..Len(SelectSeq(log, IsStep)) |-> SelectSeq(log, IsStep)[k][2]]

\* The steps of a completed construction: header read, record-layout derivation,
\* raw-view creation, and the trailer read after a second layout derivation and a seek.
CompletedSteps ==
    <<"_read_header", "_get_data_dtype", "np.memmap", "da.from_array",
      "_get_data_dtype", "seek", "np.fromfile(native_trailer)">>

\* The bytes of one line record of the parsed header's layout: one sub-record per
\* present standard channel and three per line for HRV, each a fixed part and the
\* 10-bit packed columns.
RecordSizeOfHeader ==
    LET n_visir == Cardinality({k \in 1..Len(mda.channel_list) : mda.channel_list[k] # "HRV"})
        visir   == LrecFixedSize + ((mda.number_of_columns * 5) \div 4)
        hrv     == LrecFixedSize + ((mda.hrv_number_of_columns * 5) \div 4)
    IN  (n_visir * visir) + (IF mda.available_channels["HRV"] THEN 3 * hrv ELSE 0)

\* The offset the trailer was read at.
SeekOffset == SelectSeq(log, LAMBDA e : IsStep(e) /\ e[2] = "seek")[1][3]

\* C11: a constructed handler has taken the steps header read, layout derivation, raw
\* view, trailer read in that order, has read the trailer at header size + record size
\* of the parsed header * number of lines, and only such a handler has served a
\* request; a construction that failed ended in an exception, holds no trailer and no
\* raw view, and has served nothing.
C11_ConstructionOrder ==
    /\ hstate = "ready" =>
          /\ StepNames = CompletedSteps
          /\ SeekOffset = HeaderSize + (RecordSizeOfHeader * mda.number_of_lines)
          /\ SeekOffset + TrailerSize <= file.size
          /\ header = file.header
          /\ trailer = file.trailer
          /\ dask_array.shape = mda.number_of_lines
    /\ ret # NoRequest => hstate = "ready"
    /\ hstate = "failed" =>
          /\ log[Len(log)][1] = "raised"
          /\ \A k \in 1..Len(StepNames) : StepNames[k] = CompletedSteps[k]
          /\ Len(StepNames) < Len(CompletedSteps)
          /\ trailer = << >>
          /\ dask_array = << >>
          /\ ret = NoRequest
    /\ hstate = "none" => log = << >> /\ ret = NoRequest

\* A handler of a file without HRV and with padded columns has served a request.
C11_Witness ==
    /\ hstate = "ready"
    /\ ret # NoRequest
    /\ ~ mda.available_channels["HRV"]
    /\ Len(mda.channel_list) > 1
    /\ mda.number_of_columns # header.NumberColumnsVISIR

\* A construction failed in the raw view, after the header was read.
C11_FailedInMemmap ==
    /\ hstate = "failed"
    /\ StepNames = <<"_read_header", "_get_data_dtype", "np.memmap">>


\* ---------------------------------------------------------------------------------
\* Full disk, and the source of the bounds (_read_header, get_area_extent)

\* The selected rectangle of the file spans the standard grid in both directions.
FullRectangle ==
    /\ file.header.NorthLineSelectedRectangle - file.header.SouthLineSelectedRectangle + 1 >= 3712
    /\ file.header.WestColumnSelectedRectangle - file.header.EastColumnSelectedRectangle + 1 >= 3712

\* The extent computed by the shared formula from the trailer's upper window, for HRV.
UpperWindowExtent2 ==
    LET b  == trailer.ActualL15CoverageHRV
        o  == ret.offsets
        cs == 1000 * header.ReferenceGridHRV.ColumnDirGridStep
        ls == 1000 * header.ReferenceGridHRV.LineDirGridStep
    IN  << (11132 - 2 * b.UpperEastColumnActual + 1 + o[2]) * cs,
           (2 * b.UpperNorthLineActual - 11132 + 1 + o[1]) * ls,
           (11132 - 2 * b.UpperWestColumnActual - 1 + o[2]) * cs,
           (2 * b.UpperSouthLineActual - 11132 - 1 + o[1]) * ls >>

\* The extent computed by the shared formula from the header's rectangle, each bound
\* multiplied by 3, on the HRV grid.
ScaledHeaderExtent2 ==
    LET o  == ret.offsets
        cs == 1000 * header.ReferenceGridHRV.ColumnDirGridStep
        ls == 1000 * header.ReferenceGridHRV.LineDirGridStep
    IN  << (11132 - 2 * (3 * header.EastColumnSelectedRectangle) + 1 + o[2]) * cs,
           (2 * (3 * header.NorthLineSelectedRectangle) - 11132 + 1 + o[1]) * ls,
           (11132 - 2 * (3 * header.WestColumnSelectedRectangle) - 1 + o[2]) * cs,
           (2 * (3 * header.SouthLineSelectedRectangle) - 11132 - 1 + o[1]) * ls >>

\* The extent computed by the shared formula from the header's rectangle as it is, on
\* the standard grid.
UnscaledHeaderExtent2 ==
    LET o  == ret.offsets
        cs == 1000 * header.ReferenceGridVIS_IR.ColumnDirGridStep
        ls == 1000 * header.ReferenceGridVIS_IR.LineDirGridStep
    IN  << (3712 - 2 * header.EastColumnSelectedRectangle + 1 + o[2]) * cs,
           (2 * header.NorthLineSelectedRectangle - 3712 + 1 + o[1]) * ls,
           (3712 - 2 * header.WestColumnSelectedRectangle - 1 + o[2]) * cs,
           (2 * header.SouthLineSelectedRectangle - 3712 - 1 + o[1]) * ls >>

\* The value is built from the trailer's actual window bounds: the lower window's
\* extent, or both windows' extents.
FromTrailerBounds ==
    \/ ret.value = LowerWindowExtent2
    \/ /\ Len(ret.value) = 6
       /\ ret.value[1] = UpperWindowExtent2
       /\ ret.value[2] = LowerWindowExtent2

\* C12: a file is full disk iff its selected rectangle has at least the standard
\* grid's lines and at least its columns.  A get_area_extent that returns (supported
\* earth model and grid origin) takes, for HRV, the trailer's actual window bounds iff
\* the file is full disk or rapid scan, and otherwise returns one extent of the
\* header's rectangle with each bound multiplied by 3; for a standard channel it
\* returns one extent of the unscaled header rectangle in every case.
C12_FullDiskAndBounds ==
    /\ hstate = "ready" => (mda.is_full_disk <=> FullRectangle)
    /\ (AreaRequest /\ SupportedEarthModel /\ RequestGridOrigin = 2) =>
          /\ ret.raised = <<"none">>
          /\ IF ret.name = "HRV"
             THEN IF FullRectangle \/ trailer.ReducedScan # 0
                  THEN FromTrailerBounds /\ ret.value # ScaledHeaderExtent2
                  ELSE ret.value = ScaledHeaderExtent2 /\ ~ FromTrailerBounds
             ELSE ret.value = UnscaledHeaderExtent2

\* An HRV extent was computed from the scaled header rectangle of a file with all the
\* lines of the disk but fewer columns.
C12_Witness ==
    /\ AreaRequest
    /\ ret.name = "HRV"
    /\ ret.raised = <<"none">>
    /\ header.NorthLineSelectedRectangle - header.SouthLineSelectedRectangle + 1 = 3712
    /\ header.WestColumnSelectedRectangle - header.EastColumnSelectedRectangle + 1 < 3712
    /\ trailer.ReducedScan = 0
    /\ ~ mda.is_full_disk
    /\ ret.value = ScaledHeaderExtent2

\* A standard channel's extent was computed from the header rectangle of a full-disk
\* rapid-scan file.
C12_StandardInFullDisk ==
    /\ AreaRequest
    /\ ret.name # "HRV"
    /\ ret.raised = <<"none">>
    /\ mda.is_full_disk
    /\ trailer.ReducedScan # 0
    /\ ret.value = UnscaledHeaderExtent2


\* ---------------------------------------------------------------------------------
\* The HRV column count (_read_header)

\* C13: in a full-width file the HRV column count is half the header-reported
\* NumberColumnsHRV and an odd header-reported value is rejected (construction fails
\* with an error); in a narrower file the header-reported value is used unchanged.
C13_OddHrvColumnsRejected ==
    hstate # "none" =>
        IF SelectedColumns >= 3712
        THEN IF file.header.NumberColumnsHRV % 2 = 1
             THEN hstate = "failed" /\ log[Len(log)][1] = "raised"
             ELSE hstate = "ready"
                  /\ 2 * mda.hrv_number_of_columns = file.header.NumberColumnsHRV
        ELSE hstate = "ready"
             /\ mda.hrv_number_of_columns = file.header.NumberColumnsHRV

\* What _read_header does: in a full-width file the HRV column count is the integer
\* half of the header-reported value, odd or even, and construction returns a handler;
\* in a narrower file the header-reported value is used unchanged.
C13_HrvColumnsTruncated ==
    hstate # "none" =>
        /\ hstate = "ready"
        /\ IF SelectedColumns >= 3712
           THEN mda.hrv_number_of_columns = file.header.NumberColumnsHRV \div 2
           ELSE mda.hrv_number_of_columns = file.header.NumberColumnsHRV

\* A full-width file with an odd NumberColumnsHRV was opened.
C13_OddHrvColumnsAccepted ==
    /\ hstate = "ready"
    /\ SelectedColumns >= 3712
    /\ file.header.NumberColumnsHRV = 11137
    /\ mda.hrv_number_of_columns = 5568


\* ---------------------------------------------------------------------------------
\* get_area_def and the shape of get_area_extent's result

\* The last request was get_area_def for HRV, and its get_area_extent returned.
HrvAreaDefRequest ==
    /\ ret.op = "get_area_def"
    /\ ret.name = "HRV"
    /\ ret.extent.raised = <<"none">>

\* C14: for HRV and every combination of the full-disk flag and the trailer's
\* ReducedScan, get_area_def unpacks six values exactly when get_area_extent returned
\* the six-element two-window form and takes the result as one extent exactly when it
\* returned four values, and so never fails on the shape of the result.
C14_AreaDefShapeAgrees ==
    HrvAreaDefRequest =>
        /\ ret.expects = Len(ret.extent.value)
        /\ ret.raised = <<"none">>

\* What holds: the two methods agree, and get_area_def returns, in every combination
\* but one; for a full-disk file whose trailer has ReducedScan set, get_area_extent
\* returns one extent, get_area_def unpacks six values and raises ValueError.
C14_AgreesUnlessFullDiskRapidScan ==
    HrvAreaDefRequest =>
        IF mda.is_full_disk /\ trailer.ReducedScan # 0
        THEN /\ ret.expects = 6
             /\ Len(ret.extent.value) = 4
             /\ ret.raised[1] = "ValueError"
        ELSE /\ ret.expects = Len(ret.extent.value)
             /\ ret.raised = <<"none">>
             /\ mda.is_full_disk => Len(ret.area.stacked) = 2
             /\ ~ mda.is_full_disk => Len(ret.area.area_extent) = 4

\* get_area_def failed to unpack the single extent of a full-disk rapid-scan file.
C14_UnpackFailed ==
    /\ HrvAreaDefRequest
    /\ mda.is_full_disk
    /\ trailer.ReducedScan = 1
    /\ ret.raised[1] = "ValueError"


\* ---------------------------------------------------------------------------------
\* The sub-record of a standard channel (_get_data_dtype, get_dataset)

\* The standard channels of the file: the names whose position, among the first 11 of
\* the table, holds 'X' in the selection string.
PresentStandard == {CHANNEL_NAMES[k] : k \in {j \in 1..11 : Band[j] = "X"}}

\* The number of present standard channels before the channel n in table order.
PresentBefore(n) == Cardinality({k \in 1..11 : Band[k] = "X" /\ k < TablePosition(n)})

\* The number of standard-channel sub-records per line that the raw view declares.
DeclaredStandard == dask_array.dtype[1].count

\* C15: for every selection string, the sub-record index get_dataset uses for a
\* present standard channel is below the number of standard-channel sub-records per
\* line that _get_data_dtype declared, is the number of present standard channels
\* before it in table order (whether or not HRV is present), and differs between any
\* two present standard channels; a request for such a channel reads that sub-record.
\* The indices of all channels are compared on the handler as construction leaves it
\* (no request changes the channel list or the raw view).
C15_SubRecordIndex ==
    hstate = "ready" =>
        /\ dask_array.dtype[1].name = "visir"
        /\ ret = NoRequest =>
              /\ DeclaredStandard = Cardinality(PresentStandard)
              /\ \A a \in PresentStandard :
                    /\ SubRecordIndex(a) = PresentBefore(a)
                    /\ SubRecordIndex(a) < DeclaredStandard
                    /\ \A b \in PresentStandard :
                          (a # b) => SubRecordIndex(a) # SubRecordIndex(b)
        /\ (DatasetRequest /\ ret.name \in PresentStandard) =>
              /\ ret.index = <<PresentBefore(ret.name)>>
              /\ PresentBefore(ret.name) < DeclaredStandard
              /\ ret.raised[1] \notin {"IndexError", "ValueError"}

\* A standard channel was read from its sub-record in a file that also holds HRV and
\* lacks some of the standard channels before it.
C15_Witness ==
    /\ hstate = "ready"
    /\ DatasetRequest
    /\ ret.name = "IR_134"
    /\ Band = [k \in 1..12 |-> IF k \in {2, 11, 12} THEN "X" ELSE "-"]
    /\ ret.index = <<1>>
    /\ DeclaredStandard = 2


\* ---------------------------------------------------------------------------------
\* Zero counts (get_dataset, calibrate)

\* The counts of the file's line as 10-bit unpacking gives them for the channel of the
\* last request: sub-record k of the standard channels holds <<4k + 4, 0, 0, p>>, the
\* three HRV sub-records hold <<0, 256 (k + 1), p div 4, (p mod 4) * 256>>, p being the
\* file's pixel byte.
UnpackedCounts ==
    LET p == file.data.visir[0][5]
        h(k) == <<0, 256 * (k + 1), p \div 4, (p % 4) * 256>>
    IN  IF ret.name = "HRV" THEN h(0) \o h(1) \o h(2)
        ELSE <<4 * ret.index[1] + 4, 0, 0, p>>

\* C16: in get_dataset every pixel whose unpacked count is 0 is the missing value, and
\* every other pixel holds its count unchanged, in the array that calibrate receives,
\* at every calibration level; a 'counts' request returns that array: the unpacked
\* counts with zeros missing.
C16_ZeroCountsMissing ==
    (DatasetRequest /\ ret.cal # << >>) =>
        /\ ret.data = UnpackedCounts
        /\ Len(ret.xarr) = Len(ret.data)
        /\ \A k \in 1..Len(ret.data) :
              IF ret.data[k] = 0 THEN ret.xarr[k] = NaN
              ELSE ret.xarr[k] = <<ret.data[k]>>
        /\ (ret.calibration = "counts") =>
              /\ ret.raised = <<"none">>
              /\ ret.cal[1].res = ret.xarr
        /\ (ret.calibration = "radiance" /\ ret.raised = <<"none">>) =>
              \A k \in 1..Len(ret.data) : (ret.cal[1].res[k] = NaN) <=> (ret.data[k] = 0)

\* A 'counts' request returned a line with zero and non-zero counts.
C16_Witness ==
    /\ DatasetRequest
    /\ ret.calibration = "counts"
    /\ ret.name = "IR_108"
    /\ ret.raised = <<"none">>
    /\ ret.data = <<36, 0, 0, 7>>
    /\ ret.cal[1].res = << <<36>>, NaN, NaN, <<7>> >>

\* A radiance request for HRV reached calibrate with its zero counts missing.
C16_RadianceWitness ==
    /\ DatasetRequest
    /\ ret.calibration = "radiance"
    /\ ret.name = "HRV"
    /\ ret.raised = <<"none">>
    /\ ret.data[1] = 0
    /\ ret.xarr[1] = NaN
    /\ ret.xarr[2] = <<256>>

====
